---- MODULE Spec2Model ----
(***************************************************************************)
(* A model of the bezier library (bezier.c / bezier.h): curves, splines,   *)
(* the geometry matrix, the basis transform, the polynomial evaluator and  *)
(* the resampler, over an explicit heap of allocated blocks.               *)
(*                                                                         *)
(* Conventions                                                             *)
(*  - C arrays are functions over 0..n-1, so indices read as in the code.  *)
(*  - double samples are modelled exactly: input samples and coefficients  *)
(*    are integers, evaluated samples are rationals [n, d] in lowest       *)
(*    terms.  Rounding of IEEE doubles is not modelled.                    *)
(*  - unsigned int is 32 bits wide and is kept as two 16-bit halves        *)
(*    [hi, lo]; int is 32-bit two's complement.                            *)
(*  - undefined behaviour moves the run to status "undefined" (any         *)
(*    outcome), except where the outcomes of real builds are enumerated.   *)
(*  - assert() is compiled in (the sources never define NDEBUG); a failed  *)
(*    assertion moves the run to status "abort".                           *)
(***************************************************************************)
EXTENDS Integers, Sequences, FiniteSets, TLC

VARIABLES cv, sp, heap, status, last

vars == <<cv, sp, heap, status, last>>

(***************************************************************************)
(* Bounds of the model                                                     *)
(***************************************************************************)
MaxLen == 6        \* largest length passed to create_curve for the input
MaxSolLen == 4     \* largest length passed to create_curve for the output

(***************************************************************************)
(* Program constants                                                       *)
(***************************************************************************)
DEGREE == 4

\* the matrix with the alternating signs of the binomial row
McrRows_alternating ==
  << <<  1,  -4,   6, -4, 1 >>,
     << -4,  12, -12,  4, 0 >>,
     <<  6, -12,   6,  0, 0 >>,
     << -4,   4,   0,  0, 0 >>,
     <<  1,   0,   0,  0, 0 >> >>

McrRows ==
  << <<  1,  -4,   6, 4, 1 >>,
     << -4,  12, -12, 4, 0 >>,
     <<  6, -12,   6, 0, 0 >>,
     << -4,   4,   0, 0, 0 >>,
     <<  1,   0,   0, 0, 0 >> >>

Mcr == [i \in 0..DEGREE |-> [j \in 0..DEGREE |-> McrRows[i + 1][j + 1]]]

(***************************************************************************)
(* 32-bit integers                                                         *)
(***************************************************************************)
Half == 65536
HalfTop == 32768
INT_MIN == (-2147483647) - 1

\* an unsigned int holding the natural n < 2^31
ToU32(n) == [hi |-> n \div Half, lo |-> n % Half]

\* conversion int -> unsigned int (value modulo 2^32)
IntToU32(i) ==
  IF i >= 0 THEN ToU32(i)
  ELSE LET m == (i + 2147483647) + 1
       IN [hi |-> HalfTop + (m \div Half), lo |-> m % Half]

\* conversion unsigned int -> int (two's complement reinterpretation)
U32ToInt(u) ==
  IF u.hi < HalfTop THEN u.hi * Half + u.lo
  ELSE (u.hi - Half) * Half + u.lo

\* unsigned subtraction, modulo 2^32
U32Sub(a, b) ==
  LET d == a.lo - b.lo
      borrow == IF d < 0 THEN 1 ELSE 0
  IN [hi |-> (a.hi - b.hi - borrow) % Half, lo |-> d % Half]

U32Lt(a, b) == a.hi < b.hi \/ (a.hi = b.hi /\ a.lo < b.lo)
U32Le(a, b) == a = b \/ U32Lt(a, b)
U32Zero == ToU32(0)

(***************************************************************************)
(* Exact sample values of the output curve                                 *)
(***************************************************************************)
Abs(a) == IF a < 0 THEN -a ELSE a

RECURSIVE GCD(_, _)
GCD(a, b) == IF b = 0 THEN a ELSE GCD(b, a % b)

Rat(n, d) ==
  LET g == GCD(Abs(n), d)
  IN [n |-> n \div g, d |-> d \div g]

(***************************************************************************)
(* Objects and heap blocks                                                 *)
(***************************************************************************)
CurveIds == {"c", "sol"}
SplineIds == {"s", "g", "G"}     \* "G" is the temporary of spline()

NULL == <<"null">>
XBlk(cid) == <<"x", cid>>            \* curve->x
PtrBlk(sid) == <<"coeff", sid>>      \* spline->coeff, the row pointers
CoefBlk(sid) == <<"c", sid>>         \* the block c of coefficients
CurvePtr(cid) == <<"curve", cid>>    \* a curve_t*
Deref(p) == p[2]

Blocks == {XBlk(id) : id \in CurveIds}
            \cup {PtrBlk(id) : id \in SplineIds}
            \cup {CoefBlk(id) : id \in SplineIds}

Arr(n, v) == [i \in 0..(n - 1) |-> v]
Size(a) == Cardinality(DOMAIN a)

Dead == [live |-> FALSE, data |-> <<>>]
Junk == [blk |-> <<"junk">>, off |-> 0]   \* an uninitialised row pointer

NoCurve == [made |-> FALSE, x |-> NULL, len |-> U32Zero]
NoSpline == [made |-> FALSE, curve |-> NULL, coeff |-> NULL,
             len |-> U32Zero, num_segs |-> U32Zero]

(***************************************************************************)
(* Memory: the state the library functions transform.  acc collects every  *)
(* array access <<block, index>> of the running call, wr the writes to the *)
(* solution curve in program order.                                        *)
(***************************************************************************)
Mem == [cv |-> cv, sp |-> sp, heap |-> heap, st |-> "run",
        acc |-> {}, wr |-> <<>>]

InB(m, blk, idx) ==
  /\ blk \in Blocks
  /\ m.heap[blk].live
  /\ idx \in DOMAIN m.heap[blk].data

Undefined(m) == [m EXCEPT !.st = "undefined"]

\* an access to blk[idx]; out of bounds or through NULL is undefined
Touch(m, blk, idx) ==
  [m EXCEPT !.acc = @ \cup {<<blk, idx>>},
            !.st = IF InB(m, blk, idx) THEN @ ELSE "undefined"]

Store(m, blk, idx, v) ==
  LET t == Touch(m, blk, idx)
  IN IF t.st = "run" THEN [t EXCEPT !.heap[blk].data[idx] = v] ELSE t

\* malloc/calloc of n elements (n an int converted to size_t) filled with v
\* fail: the allocator returns NULL.  A negative n converts to a size no
\* allocator can serve; for n = 0 either NULL or an empty block may come
\* back.
Alloc(m, blk, n, v, fail) ==
  IF n < 0 \/ fail THEN [mem |-> m, p |-> NULL]
  ELSE [mem |-> [m EXCEPT !.heap[blk] = [live |-> TRUE, data |-> Arr(n, v)]],
        p |-> blk]

\* free(p) for a pointer [blk, off]
Free(m, p) ==
  IF p.blk = NULL /\ p.off = 0 THEN m
  ELSE IF p.blk \in Blocks /\ p.off = 0 /\ m.heap[p.blk].live
       THEN [m EXCEPT !.heap[p.blk] = Dead]
       ELSE Undefined(m)

(***************************************************************************)
(* create_curve / free_curve                                               *)
(***************************************************************************)
create_curve(m, cid, len, failS, failX) ==
  IF failS THEN Undefined(m)         \* curve == NULL, curve->x written
  ELSE LET a == Alloc(m, XBlk(cid), len, 0, failX)
       IN [a.mem EXCEPT !.cv[cid] =
             [made |-> TRUE, x |-> a.p, len |-> ToU32(len)]]

free_curve(m, cid) ==
  LET f == Free(m, [blk |-> m.cv[cid].x, off |-> 0])
  IN IF f.st # "run" THEN f
     ELSE [f EXCEPT !.cv[cid].x = NULL, !.cv[cid].len = U32Zero]

(***************************************************************************)
(* create_spline / free_spline                                             *)
(***************************************************************************)
\* the rows one coefficient too close to each other
RowStride_short(num_cpts) == num_cpts - 1

\* the distance between the rows of the block c
RowStride(num_cpts) == num_cpts

RECURSIVE ArrangeRows(_, _, _, _, _, _)
ArrangeRows(m, sid, c, i, num_segs, num_cpts) ==
  IF m.st # "run" \/ ~(i < num_segs) THEN m
  ELSE ArrangeRows(
         Store(m, m.sp[sid].coeff, i,
               [blk |-> c, off |-> i * RowStride(num_cpts)]),
         sid, c, i + 1, num_segs, num_cpts)

SegCount(len) == U32ToInt(U32Sub(len, IntToU32(DEGREE)))

create_spline(m, sid, cid, failS, failP, failC) ==
  LET num_cpts == DEGREE + 1
      num_segs == SegCount(m.cv[cid].len)
      num_coeff == num_cpts * num_segs
  IN IF failS THEN Undefined(m)      \* spline == NULL, spline->curve written
     ELSE
       LET p == Alloc(m, PtrBlk(sid), num_segs, Junk, failP)
           c == Alloc(p.mem, CoefBlk(sid), num_coeff, 0, failC)
           m1 == [c.mem EXCEPT !.sp[sid] =
                    [made |-> TRUE, curve |-> CurvePtr(cid), coeff |-> p.p,
                     len |-> U32Zero, num_segs |-> U32Zero]]
           m2 == ArrangeRows(m1, sid, c.p, 0, num_segs, num_cpts)
       IN IF m2.st # "run" THEN m2
          ELSE [m2 EXCEPT !.sp[sid].len = IntToU32(num_coeff),
                          !.sp[sid].num_segs = IntToU32(num_segs)]

\* the samples of the source curve freed along with the rows
FreeTargets_source(m, sid, row0) ==
  <<[blk |-> m.cv["c"].x, off |-> 0], [blk |-> m.sp[sid].coeff, off |-> 0]>>

\* the two pointers handed to free(): *(spline->coeff) and spline->coeff
FreeTargets(m, sid, row0) == <<row0, [blk |-> m.sp[sid].coeff, off |-> 0]>>

free_spline(m, sid) ==
  LET m1 == [m EXCEPT !.sp[sid].curve = NULL]
      t == Touch(m1, m.sp[sid].coeff, 0)     \* *(spline->coeff)
  IN IF t.st # "run" THEN t
     ELSE LET targets == FreeTargets(t, sid, t.heap[m.sp[sid].coeff].data[0])
              f1 == Free(t, targets[1])
              f2 == IF f1.st = "run" THEN Free(f1, targets[2]) ELSE f1
          IN IF f2.st # "run" THEN f2
             ELSE [f2 EXCEPT !.sp[sid].coeff = NULL,
                             !.sp[sid].len = U32Zero,
                             !.sp[sid].num_segs = U32Zero]

(***************************************************************************)
(* gmatrix                                                                 *)
(***************************************************************************)
\* the element of row pointer p at column j
RowAt(p, j) == p.off + j

\* k never advanced
WindowStart_stuck(i) == 0

\* k started one sample late
WindowStart_late(i) == i + 1

\* k, which the loop header advances together with i
WindowStart(i) == i

RECURSIVE GRow(_, _, _, _, _)
GRow(m, gid, cid, i, j) ==
  IF m.st # "run" \/ ~(j < DEGREE + 1) THEN m
  ELSE
    LET k == WindowStart(i)
        r == Touch(m, m.cv[cid].x, j + k)               \* curve->x[j+k]
        q == IF r.st = "run" THEN Touch(r, r.sp[gid].coeff, i) ELSE r
    IN IF q.st # "run" THEN q
       ELSE LET p == q.heap[q.sp[gid].coeff].data[i]    \* G->coeff[i]
                v == q.heap[q.cv[cid].x].data[j + k]
            IN GRow(Store(q, p.blk, RowAt(p, j), v), gid, cid, i, j + 1)

RECURSIVE GLoop(_, _, _, _, _)
GLoop(m, gid, cid, i, num_segs) ==
  IF m.st # "run" \/ ~(i < num_segs) THEN m
  ELSE GLoop(GRow(m, gid, cid, i, 0), gid, cid, i + 1, num_segs)

gmatrix(m, gid, cid) ==
  IF m.sp[gid].curve = NULL THEN Undefined(m)     \* G->curve->len
  ELSE GLoop(m, gid, cid, 0, SegCount(m.cv[Deref(m.sp[gid].curve)].len))

(***************************************************************************)
(* segment / coefficients                                                  *)
(***************************************************************************)
\* memset( S , 0.0 , (DEGREE+1)*sizeof(double) )
Memset(S) == [i \in 0..DEGREE |-> 0]

RECURSIVE Dot(_, _, _, _)
Dot(acc, i, j, G) ==
  IF ~(j < DEGREE + 1) THEN acc
  ELSE Dot(acc + Mcr[i][j] * G[j], i, j + 1, G)

\* S and G are distinct arrays of DEGREE+1 values; the value is S on return
segment(S, G) ==
  LET Z == Memset(S)
  IN [i \in 0..DEGREE |-> Dot(Z[i], i, 0, G)]

RECURSIVE TouchRow(_, _, _)
TouchRow(m, p, j) ==
  IF m.st # "run" \/ ~(j < DEGREE + 1) THEN m
  ELSE TouchRow(Touch(m, p.blk, RowAt(p, j)), p, j + 1)

LoadCols(m, p, n) == [j \in 0..(n - 1) |-> m.heap[p.blk].data[RowAt(p, j)]]
LoadRow(m, p) == LoadCols(m, p, DEGREE + 1)

StoreRow(m, p, S) ==
  [m EXCEPT !.heap[p.blk].data =
     [x \in DOMAIN @ |->
        IF x - p.off \in 0..DEGREE THEN S[x - p.off] ELSE @[x]]]

RECURSIVE CLoop(_, _, _, _)
CLoop(m, sid, gid, i) ==
  IF m.st # "run" \/ ~U32Lt(IntToU32(i), m.sp[sid].num_segs) THEN m
  ELSE
    LET a == Touch(m, m.sp[sid].coeff, i)                  \* spline->coeff[i]
        b == IF a.st = "run" THEN Touch(a, a.sp[gid].coeff, i) ELSE a
    IN IF b.st # "run" THEN b
       ELSE
         LET ps == b.heap[b.sp[sid].coeff].data[i]
             pg == b.heap[b.sp[gid].coeff].data[i]
             ts == TouchRow(b, ps, 0)
             tg == IF ts.st = "run" THEN TouchRow(ts, pg, 0) ELSE ts
         IN IF tg.st # "run" THEN tg
            ELSE CLoop(StoreRow(tg, ps, segment(LoadRow(tg, ps), LoadRow(tg, pg))),
                       sid, gid, i + 1)

coefficients(m, sid, gid) == CLoop(m, sid, gid, 0)

(***************************************************************************)
(* spline                                                                  *)
(***************************************************************************)
spline(m, cid, sid, failS, failP, failC) ==
  LET G == "G"
      m1 == create_spline(m, G, cid, failS, failP, failC)
      m2 == IF m1.st = "run" THEN gmatrix(m1, G, cid) ELSE m1
      m3 == IF m2.st = "run" THEN coefficients(m2, sid, G) ELSE m2
  IN IF m3.st = "run" THEN free_spline(m3, G) ELSE m3

(***************************************************************************)
(* polynomial / evaluate                                                   *)
(***************************************************************************)
\* t is the quotient (double) j / res, kept as the pair [n |-> j, d |-> res];
\* assert( t >= 0.0 || t <= 1.0 ) holds of every t
polynomial(coeff, t) ==
  Rat(coeff[0] * t.n * t.n * t.n
        + coeff[1] * t.n * t.n * t.d
        + coeff[2] * t.n * t.d * t.d
        + coeff[3] * t.d * t.d * t.d,
      t.d * t.d * t.d)

RECURSIVE TouchCols(_, _, _, _)
TouchCols(m, p, j, n) ==
  IF m.st # "run" \/ ~(j < n) THEN m
  ELSE TouchCols(Touch(m, p.blk, RowAt(p, j)), p, j + 1, n)

\* j/res divided as integers
Param_int(j, res) == [n |-> j \div res, d |-> 1]

Param(j, res) == [n |-> j, d |-> res]

RECURSIVE EInner(_, _, _, _, _, _, _)
EInner(m, sid, solid, i, k, j, res) ==
  IF m.st # "run" \/ ~(j < res) THEN m
  ELSE
    LET a == Touch(m, m.sp[sid].coeff, i)
    IN IF a.st # "run" THEN a
       ELSE
         LET p == a.heap[a.sp[sid].coeff].data[i]
             r == TouchCols(a, p, 0, 4)
         IN IF r.st # "run" THEN r
            ELSE
              LET v == polynomial(LoadCols(r, p, 4), Param(j, res))
                  w == Store(r, r.cv[solid].x, j + k, v)
              IN EInner([w EXCEPT !.wr = Append(@, <<j + k, i, j>>)],
                        sid, solid, i, k, j + 1, res)

RECURSIVE ELoop(_, _, _, _, _, _)
ELoop(m, sid, solid, i, k, res) ==
  IF m.st # "run" \/ ~U32Lt(IntToU32(i), m.sp[sid].num_segs) THEN m
  ELSE ELoop(EInner(m, sid, solid, i, k, 0, res), sid, solid, i + 1, k + res, res)

\* (int) fmod( solution->len , spline->num_segs ); both operands are below
\* 2^31 wherever the first assertion lets the call through in this model.
\* fmod(x, 0) is NaN and its conversion to int is undefined: nanInt is the
\* value the build delivers (INT_MIN on x86, 0 on ARM).
Rem(len, num_segs, nanInt) ==
  IF num_segs = U32Zero THEN nanInt
  ELSE U32ToInt(len) % U32ToInt(num_segs)

AssertLenOk(num_segs, len) == U32Le(num_segs, len)
AssertRemOk(rem) == rem = 0

evaluate(m, sid, solid, nanInt, divTrap) ==
  LET num_segs == m.sp[sid].num_segs
      len == m.cv[solid].len
  IN IF ~AssertLenOk(num_segs, len) THEN [m EXCEPT !.st = "abort"]
     ELSE
       LET rem == Rem(len, num_segs, nanInt)
       IN IF ~AssertRemOk(rem) THEN [m EXCEPT !.st = "abort"]
          ELSE IF num_segs = U32Zero
               THEN \* solution->len / 0: a trap, or a quotient of 0
                    IF divTrap THEN Undefined(m)
                    ELSE ELoop(m, sid, solid, 0, 0, 0)
               ELSE ELoop(m, sid, solid, 0, 0,
                          U32ToInt(len) \div U32ToInt(num_segs))

(***************************************************************************)
(* The caller's samples                                                    *)
(***************************************************************************)
Patterns == {"ramp", "square"}

Sample(p, n) ==
  CASE p = "ramp" -> n
    [] p = "square" -> n * n

\* curve->x[n] = v for every n < curve->len, by the owner of the curve
fill(m, cid, p) ==
  [m EXCEPT !.heap[m.cv[cid].x].data = [n \in DOMAIN @ |-> Sample(p, n)]]

(***************************************************************************)
(* The state machine (first part)                                          *)
(***************************************************************************)
Init ==
  /\ cv = [id \in CurveIds |-> NoCurve]
  /\ sp = [id \in SplineIds |-> NoSpline]
  /\ heap = [b \in Blocks |-> Dead]
  /\ status = "run"
  /\ last = [op |-> "init", args |-> <<>>, acc |-> {}, wr |-> <<>>]

Commit(m, op, args) ==
  /\ cv' = m.cv
  /\ sp' = m.sp
  /\ heap' = m.heap
  /\ status' = m.st
  /\ last' = [op |-> op, args |-> args, acc |-> m.acc, wr |-> m.wr]

LenBound(cid) == IF cid = "c" THEN MaxLen ELSE MaxSolLen

CreateCurve ==
  /\ status = "run"
  /\ \E cid \in CurveIds, failS, failX \in BOOLEAN :
       /\ ~cv[cid].made
       /\ \E len \in 0..LenBound(cid) :
            Commit(create_curve(Mem, cid, len, failS, failX),
                   "create_curve", <<cid, len, ~failS /\ ~failX>>)

FreeCurve ==
  /\ status = "run"
  /\ \E cid \in CurveIds :
       /\ cv[cid].made
       /\ Commit(free_curve(Mem, cid), "free_curve", <<cid>>)

UserSplines == {"s", "g"}

CreateSpline ==
  /\ status = "run"
  /\ cv["c"].made
  /\ \E sid \in UserSplines, failS, failP, failC \in BOOLEAN :
       /\ ~heap[PtrBlk(sid)].live
       /\ ~heap[CoefBlk(sid)].live
       /\ Commit(create_spline(Mem, sid, "c", failS, failP, failC),
                 "create_spline", <<sid, "c", ~failS /\ ~failP /\ ~failC>>)

FreeSpline ==
  /\ status = "run"
  /\ \E sid \in UserSplines :
       /\ sp[sid].made
       /\ Commit(free_spline(Mem, sid), "free_spline", <<sid>>)

Fill ==
  /\ status = "run"
  /\ cv["c"].made
  /\ cv["c"].x # NULL
  /\ Size(heap[cv["c"].x].data) = U32ToInt(cv["c"].len)
  /\ \E p \in Patterns :
       Commit(fill(Mem, "c", p), "fill", <<"c", p>>)

Gmatrix ==
  /\ status = "run"
  /\ cv["c"].made
  /\ \E gid \in UserSplines :
       /\ sp[gid].made
       /\ Commit(gmatrix(Mem, gid, "c"), "gmatrix", <<gid, "c">>)

Coefficients ==
  /\ status = "run"
  /\ sp["s"].made
  /\ sp["g"].made
  /\ Commit(coefficients(Mem, "s", "g"), "coefficients", <<"s", "g">>)

SplineCall ==
  /\ status = "run"
  /\ cv["c"].made
  /\ sp["s"].made
  /\ \E failS, failP, failC \in BOOLEAN :
       Commit(spline(Mem, "c", "s", failS, failP, failC),
              "spline", <<"c", "s", ~failS /\ ~failP /\ ~failC>>)

NanInts == {INT_MIN, 0}

Evaluate ==
  /\ status = "run"
  /\ sp["s"].made
  /\ cv["sol"].made
  /\ \E nanInt \in NanInts, divTrap \in BOOLEAN :
       Commit(evaluate(Mem, "s", "sol", nanInt, divTrap),
              "evaluate", <<"s", "sol">>)

Next ==
  \/ CreateCurve
  \/ FreeCurve
  \/ CreateSpline
  \/ FreeSpline
  \/ Fill
  \/ Gmatrix
  \/ Coefficients
  \/ SplineCall
  \/ Evaluate

Spec == Init /\ [][Next]_vars

(***************************************************************************)
(* Vocabulary of the properties                                            *)
(***************************************************************************)
Val(u) == U32ToInt(u)                       \* of an unsigned below 2^31
LenOf(cid) == Val(cv[cid].len)
SegsOf(sid) == Val(sp[sid].num_segs)
Small(u) == u.hi < HalfTop

RowPtr(sid, i) == heap[sp[sid].coeff].data[i]
Coeff(sid, i, j) == heap[RowPtr(sid, i).blk].data[RowPtr(sid, i).off + j]
RowOf(sid, i) == [j \in 0..DEGREE |-> Coeff(sid, i, j)]
X(cid, n) == heap[cv[cid].x].data[n]

\* the curve has all of its recorded samples
CurveOk(cid) ==
  /\ cv[cid].made
  /\ cv[cid].x = XBlk(cid)
  /\ heap[XBlk(cid)].live
  /\ Small(cv[cid].len)
  /\ DOMAIN heap[XBlk(cid)].data = 0..(LenOf(cid) - 1)

\* the spline is as create_spline leaves it for a curve of length
\* L >= DEGREE+1 when every allocation succeeds (coefficients aside)
SplineOk(sid) ==
  /\ sp[sid].made
  /\ sp[sid].curve = CurvePtr("c")
  /\ Small(sp[sid].num_segs)
  /\ SegsOf(sid) >= 1
  /\ sp[sid].coeff = PtrBlk(sid)
  /\ heap[PtrBlk(sid)].live
  /\ heap[CoefBlk(sid)].live
  /\ DOMAIN heap[PtrBlk(sid)].data = 0..(SegsOf(sid) - 1)
  /\ DOMAIN heap[CoefBlk(sid)].data = 0..(SegsOf(sid) * (DEGREE + 1) - 1)
  /\ \A i \in 0..(SegsOf(sid) - 1) :
       RowPtr(sid, i) = [blk |-> CoefBlk(sid), off |-> i * (DEGREE + 1)]

\* the spline was built from the curve c as it is now
FromCurve(sid) ==
  /\ CurveOk("c")
  /\ LenOf("c") >= DEGREE + 1
  /\ SplineOk(sid)
  /\ SegsOf(sid) = LenOf("c") - DEGREE

(***************************************************************************)
(* C1: for every curve of length L >= DEGREE+1, create_spline (its         *)
(* allocations succeeding) returns a spline with num_segs = L - DEGREE     *)
(* rows, every row DEGREE+1 coefficients that are all zero, len =          *)
(* num_segs*(DEGREE+1), and rows i and i+1 disjoint.                       *)
(***************************************************************************)
C1_Case ==
  /\ last.op = "create_spline"
  /\ last.args[3]                       \* every allocation succeeded
  /\ CurveOk("c")
  /\ LenOf("c") >= DEGREE + 1

C2_Case ==
  /\ last.op = "gmatrix"
  /\ FromCurve(last.args[1])

C2_GeometryRows ==
  C2_Case =>
    /\ status = "run"
    /\ \A i \in 0..(SegsOf(last.args[1]) - 1) : \A j \in 0..DEGREE :
         Coeff(last.args[1], i, j) = X("c", i + j)

C2_Witness ==
  /\ C2_Case
  /\ status = "run"
  /\ SegsOf(last.args[1]) >= 2
  /\ \E n \in 0..(LenOf("c") - 1) : X("c", n) = n * n /\ n >= 2

(***************************************************************************)
(* C3: segment(S, G) leaves S[i] = sum over j of M[i][j]*G[j] for the      *)
(* basis matrix M written out below, whatever S held before; the           *)
(* transform is linear in G.                                               *)
(***************************************************************************)
C3_M ==
  << <<  1,  -4,   6, 4, 1 >>,
     << -4,  12, -12, 4, 0 >>,
     <<  6, -12,   6, 0, 0 >>,
     << -4,   4,   0, 0, 0 >>,
     <<  1,   0,   0, 0, 0 >> >>

C3_Product(G) ==
  [i \in 0..DEGREE |->
     C3_M[i + 1][1] * G[0] + C3_M[i + 1][2] * G[1] + C3_M[i + 1][3] * G[2]
       + C3_M[i + 1][4] * G[3] + C3_M[i + 1][5] * G[4]]

C3_Scalars == {-1, 0, 2, 3}
C3_Scale(k, G) == [j \in 0..DEGREE |-> k * G[j]]
C3_Add(A, B) == [j \in 0..DEGREE |-> A[j] + B[j]]

C3_Case ==
  /\ last.op = "coefficients"
  /\ status = "run"
  /\ FromCurve("s")
  /\ FromCurve("g")

C4_Case ==
  /\ last.op = "evaluate"
  /\ SplineOk("s")
  /\ CurveOk("sol")
  /\ LenOf("sol") > 0
  /\ LenOf("sol") % SegsOf("s") = 0

C5_IsRamp == \A n \in 0..(LenOf("c") - 1) : X("c", n) = n

C5_Case ==
  /\ last.op = "spline"
  /\ status = "run"
  /\ FromCurve("s")
  /\ C5_IsRamp

C5_RampStaysLine ==
  C5_Case =>
    /\ \A i \in 0..(SegsOf("s") - 1) :
         /\ Coeff("s", i, 0) = 0
         /\ Coeff("s", i, 1) = 0
    /\ \E first \in 0..DEGREE : \A i \in 0..(SegsOf("s") - 1) :
         \A res \in 1..MaxSolLen : \A j \in 0..(res - 1) :
           polynomial(RowOf("s", i), Param(j, res))
             = Rat((first + i) * res + j, res)

(***************************************************************************)
(* C6: evaluate ends in an assertion failure, before writing any sample,   *)
(* whenever solution.len is not a positive multiple of num_segs (len = 0,  *)
(* len < num_segs, a remainder, or num_segs = 0).                          *)
(***************************************************************************)
C6_PositiveMultiple ==
  /\ sp["s"].num_segs # U32Zero
  /\ cv["sol"].len # U32Zero
  /\ U32Le(sp["s"].num_segs, cv["sol"].len)
  /\ LenOf("sol") % SegsOf("s") = 0

C6_EvaluateRejects ==
  (last.op = "evaluate" /\ ~C6_PositiveMultiple) =>
    (status = "abort" /\ last.wr = <<>>)

(***************************************************************************)
(* C7: a constructor whose allocation fails does not return a structure    *)
(* whose recorded len / num_segs exceeds what was allocated.               *)
(***************************************************************************)
C7_Allocated(blk) == IF blk \in Blocks /\ heap[blk].live
                     THEN Size(heap[blk].data) ELSE 0

C7_ConstructorsReportFailure ==
  /\ (last.op = "create_curve" /\ status = "run") =>
       ~U32Lt(ToU32(C7_Allocated(cv[last.args[1]].x)), cv[last.args[1]].len)
  /\ (last.op = "create_spline" /\ status = "run") =>
       /\ ~U32Lt(ToU32(C7_Allocated(sp[last.args[1]].coeff)),
                 sp[last.args[1]].num_segs)
       /\ ~U32Lt(ToU32(C7_Allocated(CoefBlk(last.args[1]))),
                 sp[last.args[1]].len)

(***************************************************************************)
(* C8: for a curve shorter than DEGREE+1, create_spline never records a    *)
(* positive segment count or length.                                       *)
(***************************************************************************)
C8_NoPositiveSegments ==
  (last.op = "create_spline" /\ status = "run"
     /\ U32Lt(cv["c"].len, ToU32(DEGREE + 1))) =>
    /\ ~U32Lt(U32Zero, sp[last.args[1]].num_segs)
    /\ ~U32Lt(U32Zero, sp[last.args[1]].len)

(***************************************************************************)
(* C9: free_spline releases only the spline's own blocks, clears curve,    *)
(* len and num_segs and leaves every curve as it was; free_curve releases  *)
(* only the curve's samples, sets len to 0 and leaves every spline as it   *)
(* was; spline(curve, s) leaves the curves unchanged and changes only the  *)
(* coefficients of s.                                                      *)
(***************************************************************************)
C9_Step ==
  /\ (last'.op = "free_spline" /\ status = "run" /\ status' = "run") =>
       LET sid == last'.args[1]
       IN /\ cv' = cv
          /\ \A b \in Blocks \ {PtrBlk(sid), CoefBlk(sid)} : heap'[b] = heap[b]
          /\ ~heap'[PtrBlk(sid)].live
          /\ ~heap'[CoefBlk(sid)].live
          /\ sp'[sid].curve = NULL
          /\ sp'[sid].len = U32Zero
          /\ sp'[sid].num_segs = U32Zero
          /\ \A o \in SplineIds \ {sid} : sp'[o] = sp[o]
  /\ (last'.op = "free_curve" /\ status = "run" /\ status' = "run") =>
       LET cid == last'.args[1]
       IN /\ sp' = sp
          /\ \A b \in Blocks \ {XBlk(cid)} : heap'[b] = heap[b]
          /\ ~heap'[XBlk(cid)].live
          /\ cv'[cid].len = U32Zero
          /\ \A o \in CurveIds \ {cid} : cv'[o] = cv[o]
  /\ (last'.op = "spline" /\ status = "run" /\ status' = "run") =>
       /\ cv' = cv
       /\ \A b \in Blocks \ {CoefBlk("s"), PtrBlk("G"), CoefBlk("G")} :
            heap'[b] = heap[b]
       /\ ~heap'[PtrBlk("G")].live
       /\ ~heap'[CoefBlk("G")].live
       /\ DOMAIN heap'[CoefBlk("s")].data = DOMAIN heap[CoefBlk("s")].data
       /\ \A o \in SplineIds \ {"G"} : sp'[o] = sp[o]

C9_IndependentLifetimes == [][C9_Step]_vars

C9_Witness ==
  /\ last.op = "free_spline"
  /\ status = "run"
  /\ CurveOk("c")
  /\ LenOf("c") >= DEGREE + 1
  /\ \E n \in 0..(LenOf("c") - 1) : X("c", n) # 0
  /\ ~heap[CoefBlk(last.args[1])].live

(***************************************************************************)
(* C10: for a curve c of length L >= DEGREE+1, s = create_spline(c),       *)
(* spline(c, s) and a solution whose length is a positive multiple of      *)
(* s.num_segs, every array access of gmatrix, coefficients/segment and     *)
(* evaluate is in bounds.                                                  *)
(***************************************************************************)
C10_Case ==
  \/ last.op = "gmatrix" /\ FromCurve(last.args[1])
  \/ last.op = "coefficients" /\ FromCurve("s") /\ FromCurve("g")
  \/ last.op = "spline" /\ last.args[3] /\ FromCurve("s")
  \/ last.op = "evaluate" /\ C4_Case /\ FromCurve("s")

C10_Limit(blk) ==
  LET L == LenOf("c")
  IN CASE blk = XBlk("c") -> L
       [] blk = XBlk("sol") -> LenOf("sol")
       [] blk \in {PtrBlk(id) : id \in SplineIds} -> L - DEGREE
       [] blk \in {CoefBlk(id) : id \in SplineIds} -> (L - DEGREE) * (DEGREE + 1)
       [] OTHER -> 0

C10_IndexSafety ==
  C10_Case =>
    /\ status = "run"
    /\ \A a \in last.acc : a[2] >= 0 /\ a[2] < C10_Limit(a[1])
    /\ last.op \in {"gmatrix", "spline"} =>
         <<XBlk("c"), LenOf("c") - 1>> \in last.acc
    /\ last.op = "spline" =>
         \A i \in 0..(SegsOf("s") - 1) : <<PtrBlk("G"), i>> \in last.acc

C10_Witness ==
  /\ C10_Case
  /\ last.op = "evaluate"
  /\ status = "run"
  /\ SegsOf("s") >= 2
  /\ <<XBlk("sol"), LenOf("sol") - 1>> \in last.acc
  /\ LenOf("sol") > SegsOf("s")

====
